---- MODULE Spec2Model ----
(***************************************************************************)
(* Track / Playlist core of the music manager (noop10_1.py, noop10_2.py;   *)
(* the two files hold the same Track and Playlist classes).                *)
(*                                                                         *)
(* Text is a sequence of one-character strings, so that strip, lower,      *)
(* split, int() and the MM:SS formatting are computed character by         *)
(* character.  A duration (datetime.timedelta) is an integer number of     *)
(* milliseconds.  A value read from JSON, and a Python value that is not   *)
(* known to be of the annotated type, is a tagged record (JNull, JNum,     *)
(* JStr, JList, JObj).  Optional[int] is <<>> for None and <<y>> for y.    *)
(***************************************************************************)
EXTENDS Integers, Sequences, FiniteSets, TLC

VARIABLES name, tracks, file, op, ret, warnings, printed

vars == <<name, tracks, file, op, ret, warnings, printed>>

-----------------------------------------------------------------------------
(* Bounds of the model *)

\* Longest track list the model lets add_track build.
MaxTracks == 2

\* timedelta resolution kept by the model: units per second.
UnitsPerSecond == 1000

-----------------------------------------------------------------------------
(* Text *)

Ord(c) ==
  CASE c = " " -> 32 [] c = "-" -> 45 [] c = ":" -> 58
    [] c = "0" -> 48 [] c = "1" -> 49 [] c = "2" -> 50 [] c = "3" -> 51
    [] c = "4" -> 52 [] c = "5" -> 53 [] c = "6" -> 54 [] c = "7" -> 55
    [] c = "8" -> 56 [] c = "9" -> 57
    [] c = "A" -> 65 [] c = "B" -> 66 [] c = "Q" -> 81
    [] c = "a" -> 97 [] c = "b" -> 98 [] c = "q" -> 113 [] c = "x" -> 120
    [] OTHER -> 0

LowerChar(c) ==
  CASE c = "A" -> "a" [] c = "B" -> "b" [] c = "Q" -> "q" [] OTHER -> c

\* str.lower()
lower(s) == [i \in 1..Len(s) |-> LowerChar(s[i])]

RECURSIVE lstrip(_)
lstrip(s) == IF s # <<>> /\ Head(s) = " " THEN lstrip(Tail(s)) ELSE s

RECURSIVE rstrip(_)
rstrip(s) ==
  IF s # <<>> /\ s[Len(s)] = " " THEN rstrip(SubSeq(s, 1, Len(s) - 1)) ELSE s

\* str.strip()
strip(s) == rstrip(lstrip(s))

\* a < b for Python strings: code point by code point, a proper prefix first
RECURSIVE StrLess(_, _)
StrLess(a, b) ==
  IF b = <<>> THEN FALSE
  ELSE IF a = <<>> THEN TRUE
  ELSE IF Ord(Head(a)) # Ord(Head(b)) THEN Ord(Head(a)) < Ord(Head(b))
  ELSE StrLess(Tail(a), Tail(b))

\* str.split(sep): the pieces between the separators, empty pieces kept
RECURSIVE split(_, _)
split(s, sep) ==
  IF \A i \in 1..Len(s) : s[i] # sep THEN <<s>>
  ELSE LET k == CHOOSE i \in 1..Len(s) :
                  s[i] = sep /\ \A j \in 1..(i - 1) : s[j] # sep
       IN <<SubSeq(s, 1, k - 1)>> \o split(SubSeq(s, k + 1, Len(s)), sep)

Digits == {"0", "1", "2", "3", "4", "5", "6", "7", "8", "9"}

DigitValue(c) == Ord(c) - 48

DigitChar(n) == CHOOSE c \in Digits : DigitValue(c) = n

RECURSIVE DecimalValue(_)
DecimalValue(s) ==
  IF s = <<>> THEN 0
  ELSE 10 * DecimalValue(SubSeq(s, 1, Len(s) - 1)) + DigitValue(s[Len(s)])

\* int(text) accepts surrounding whitespace, one sign and at least one digit
IntLiteralOk(s) ==
  LET u == strip(s)
      d == IF u # <<>> /\ Head(u) \in {"-", "+"} THEN Tail(u) ELSE u
  IN d # <<>> /\ \A i \in 1..Len(d) : d[i] \in Digits

IntValue(s) ==
  LET u == strip(s)
  IN IF Head(u) = "-" THEN 0 - DecimalValue(Tail(u))
     ELSE IF Head(u) = "+" THEN DecimalValue(Tail(u))
     ELSE DecimalValue(u)

RECURSIVE DecimalText(_)
DecimalText(n) ==
  IF n < 10 THEN <<DigitChar(n)>>
  ELSE DecimalText(n \div 10) \o <<DigitChar(n % 10)>>

\* f"{n:02d}"
Format02d(n) ==
  LET t == IF n < 0 THEN <<"-">> \o DecimalText(0 - n) ELSE DecimalText(n)
  IN IF Len(t) >= 2 THEN t
     ELSE IF n < 0 THEN <<"-", "0">> \o Tail(t) ELSE <<"0">> \o t

-----------------------------------------------------------------------------
(* Python / JSON values *)

JNull == [t |-> "null"]
JNum(n) == [t |-> "num", n |-> n]
JStr(s) == [t |-> "str", s |-> s]
JList(items) == [t |-> "list", items |-> items]
JObj(fields) == [t |-> "obj", fields |-> fields]

None == <<>>
Some(y) == <<y>>

\* a raised exception: its class and what its message says
Raise(exc, msg) == [exc |-> exc, msg |-> msg]

IsError(r) == "exc" \in DOMAIN r

NoError == [ok |-> TRUE]

-----------------------------------------------------------------------------
(* MusicGenre *)

\* the members in declaration order
MusicGenre ==
  <<"POP", "ROCK", "JAZZ", "HIP_HOP", "ELECTRONIC", "CLASSICAL", "COUNTRY",
    "RNB", "METAL", "INDIE", "OTHER">>

\* g.value: the display label (the Russian labels, transliterated)
value(g) ==
    CASE g = "POP" -> <<"P", "o", "p">>
      [] g = "ROCK" -> <<"R", "o", "k">>
      [] g = "JAZZ" -> <<"D", "z", "h", "a", "z">>
      [] g = "HIP_HOP" -> <<"H", "i", "p", "-", "h", "o", "p">>
      [] g = "ELECTRONIC" -> <<"E", "l", "e", "k", "t", "r", "o", "n", "n", "a", "y", "a">>
      [] g = "CLASSICAL" -> <<"K", "l", "a", "s", "s", "i", "c", "h", "e", "s", "k", "a", "y", "a">>
      [] g = "COUNTRY" -> <<"K", "a", "n", "t", "r", "i">>
      [] g = "RNB" -> <<"R", "&", "B">>
      [] g = "METAL" -> <<"M", "e", "t", "a", "l">>
      [] g = "INDIE" -> <<"I", "n", "d", "i">>
      [] g = "OTHER" -> <<"D", "r", "u", "g", "o", "e">>

-----------------------------------------------------------------------------
(* Track *)

\* timedelta(hours=h, minutes=m, seconds=s)
timedelta(hours, minutes, seconds) ==
  (hours * 3600 + minutes * 60 + seconds) * UnitsPerSecond

\* int(x) of a float: truncation toward zero
TruncDiv(a, b) == IF a >= 0 THEN a \div b ELSE 0 - ((0 - a) \div b)

\* __post_init__ with the year tested before the duration
post_initYearFirst(title, artist, duration, year) ==
  IF title.t # "str" THEN Raise("AttributeError", "strip")
  ELSE IF strip(title.s) = <<>> THEN Raise("ValueError", "title is empty")
  ELSE IF artist.t # "str" THEN Raise("AttributeError", "strip")
  ELSE IF strip(artist.s) = <<>> THEN Raise("ValueError", "artist is empty")
  ELSE IF year.t \notin {"null", "num"} THEN Raise("TypeError", "compare")
  ELSE IF year.t = "num" /\ (year.n < 1900 \/ year.n > 2100)
       THEN Raise("ValueError", "bad year")
  ELSE IF duration <= 0 THEN Raise("ValueError", "duration must be positive")
  ELSE NoError

\* Track.__post_init__; title, artist and year are the values passed in,
\* whatever their type
post_init(title, artist, duration, year) ==
  IF title.t # "str" THEN Raise("AttributeError", "strip")
  ELSE IF strip(title.s) = <<>> THEN Raise("ValueError", "title is empty")
  ELSE IF artist.t # "str" THEN Raise("AttributeError", "strip")
  ELSE IF strip(artist.s) = <<>> THEN Raise("ValueError", "artist is empty")
  ELSE IF duration <= 0 THEN Raise("ValueError", "duration must be positive")
  ELSE IF year.t \notin {"null", "num"} THEN Raise("TypeError", "compare")
  ELSE IF year.t = "num" /\ (year.n < 1900 \/ year.n > 2100)
       THEN Raise("ValueError", "bad year")
  ELSE NoError

\* Track(title, artist, duration, genre, year): the new object, or the
\* exception __post_init__ raised
Track(title, artist, duration, genre, year) ==
  LET e == post_init(title, artist, duration, year)
  IN IF IsError(e) THEN e
     ELSE [title |-> title.s, artist |-> artist.s, duration |-> duration,
           genre |-> genre,
           year |-> IF year.t = "null" THEN None ELSE Some(year.n)]

IsTrack(r) == "title" \in DOMAIN r

\* Track.duration_seconds
duration_seconds(self) == TruncDiv(self.duration, UnitsPerSecond)

\* duration_str rolling minutes over into hours
duration_strWithHours(self) ==
  LET total_seconds == TruncDiv(self.duration, UnitsPerSecond)
      hours == total_seconds \div 3600
      minutes == (total_seconds % 3600) \div 60
      seconds == total_seconds % 60
  IN (IF hours > 0 THEN Format02d(hours) \o <<":">> ELSE <<>>)
       \o Format02d(minutes) \o <<":">> \o Format02d(seconds)

\* Track.duration_str
duration_str(self) ==
  LET total_seconds == TruncDiv(self.duration, UnitsPerSecond)
      minutes == total_seconds \div 60
      seconds == total_seconds % 60
  IN Format02d(minutes) \o <<":">> \o Format02d(seconds)

\* Track.to_dict
to_dict(self) ==
  JObj([title |-> JStr(self.title),
        artist |-> JStr(self.artist),
        duration |-> JStr(duration_str(self)),
        genre |-> JStr(value(self.genre)),
        year |-> IF self.year = None THEN JNull ELSE JNum(self.year[1])])

\* map(int, duration_parts): the first part int() rejects raises
IntsOk(parts) == \A i \in 1..Len(parts) : IntLiteralOk(parts[i])

\* the duration lines with a text of one part read as seconds
ParseDurationBareSeconds(text) ==
  LET duration_parts == split(text, ":")
  IN IF Len(duration_parts) \in {2, 3} /\ ~IntsOk(duration_parts)
     THEN Raise("ValueError", "invalid literal for int()")
     ELSE IF Len(duration_parts) = 2
     THEN JNum(timedelta(0, IntValue(duration_parts[1]),
                         IntValue(duration_parts[2])))
     ELSE IF Len(duration_parts) = 3
     THEN JNum(timedelta(IntValue(duration_parts[1]),
                         IntValue(duration_parts[2]),
                         IntValue(duration_parts[3])))
     ELSE IF IntLiteralOk(text) THEN JNum(timedelta(0, 0, IntValue(text)))
     ELSE Raise("ValueError", "invalid literal for int()")

\* the duration lines of Track.from_dict: a timedelta, or the exception
ParseDuration(text) ==
  LET duration_parts == split(text, ":")
  IN IF Len(duration_parts) = 2
     THEN IF IntsOk(duration_parts)
          THEN JNum(timedelta(0, IntValue(duration_parts[1]),
                              IntValue(duration_parts[2])))
          ELSE Raise("ValueError", "invalid literal for int()")
     ELSE IF Len(duration_parts) = 3
     THEN IF IntsOk(duration_parts)
          THEN JNum(timedelta(IntValue(duration_parts[1]),
                              IntValue(duration_parts[2]),
                              IntValue(duration_parts[3])))
          ELSE Raise("ValueError", "invalid literal for int()")
     ELSE Raise("ValueError", "bad duration format")

\* the genre loop falling back on the first member instead of OTHER
GenreOfFirstMember(genre_value) ==
  LET hits == {i \in 1..Len(MusicGenre) :
                 genre_value.t = "str" /\ value(MusicGenre[i]) = genre_value.s}
  IN IF hits = {} THEN MusicGenre[1]
     ELSE MusicGenre[CHOOSE i \in hits : \A j \in hits : i <= j]

\* the genre loop of Track.from_dict: the member whose label is genre_value
GenreOf(genre_value) ==
  LET hits == {i \in 1..Len(MusicGenre) :
                 genre_value.t = "str" /\ value(MusicGenre[i]) = genre_value.s}
  IN IF hits = {} THEN "OTHER"
     ELSE MusicGenre[CHOOSE i \in hits : \A j \in hits : i <= j]

\* dict.get(key, default)
Get(fields, key, default) ==
  IF key \in DOMAIN fields THEN fields[key] ELSE default

\* Track.from_dict(data): the Track, or the exception raised
from_dict(data) ==
  IF data.t # "obj" THEN Raise("TypeError", "subscript")
  ELSE IF "duration" \notin DOMAIN data.fields THEN Raise("KeyError", "duration")
  ELSE IF data.fields.duration.t # "str" THEN Raise("AttributeError", "split")
  ELSE LET duration == ParseDuration(data.fields.duration.s)
           genre == GenreOf(Get(data.fields, "genre", JStr(value("OTHER"))))
       IN IF IsError(duration) THEN duration
          ELSE IF "title" \notin DOMAIN data.fields THEN Raise("KeyError", "title")
          ELSE IF "artist" \notin DOMAIN data.fields
               THEN Raise("KeyError", "artist")
          ELSE Track(data.fields.title, data.fields.artist, duration.n, genre,
                     Get(data.fields, "year", JNull))

-----------------------------------------------------------------------------
(* Playlist *)

\* add_track refusing a track the list already holds
add_trackUnlessHeld(self_tracks, track) ==
  IF \E i \in 1..Len(self_tracks) : self_tracks[i] = track
  THEN self_tracks
  ELSE Append(self_tracks, track)

\* Playlist.add_track
add_track(self_tracks, track) == Append(self_tracks, track)

\* Playlist.add_tracks: add_track for each, in the order given
RECURSIVE add_tracks(_, _)
add_tracks(self_tracks, new_tracks) ==
  IF new_tracks = <<>> THEN self_tracks
  ELSE add_tracks(add_track(self_tracks, Head(new_tracks)), Tail(new_tracks))

\* del self.tracks[index], index counted from 0
DeleteAt(s, index) ==
  SubSeq(s, 1, index) \o SubSeq(s, index + 2, Len(s))

\* remove_track without the lower bound: a negative index counts from the end
remove_trackNegativeIndex(self_tracks, index) ==
  IF 0 - Len(self_tracks) <= index /\ index < Len(self_tracks)
  THEN [tracks |-> DeleteAt(self_tracks,
                            IF index < 0 THEN index + Len(self_tracks) ELSE index),
        ret |-> TRUE]
  ELSE [tracks |-> self_tracks, ret |-> FALSE]

\* Playlist.remove_track: the list afterwards and the value returned
remove_track(self_tracks, index) ==
  IF 0 <= index /\ index < Len(self_tracks)
  THEN [tracks |-> DeleteAt(self_tracks, index), ret |-> TRUE]
  ELSE [tracks |-> self_tracks, ret |-> FALSE]

\* Playlist.get_tracks_by_artist
get_tracks_by_artist(self_tracks, artist) ==
  LET artist_lower == lower(strip(artist))
  IN SelectSeq(self_tracks, LAMBDA track : lower(track.artist) = artist_lower)

\* Playlist.get_tracks_by_genre
get_tracks_by_genre(self_tracks, genre) ==
  SelectSeq(self_tracks, LAMBDA track : track.genre = genre)

\* get_tracks_by_year taking a track without a year as a match for any year
get_tracks_by_yearOrUnknown(self_tracks, year) ==
  SelectSeq(self_tracks,
            LAMBDA track : track.year = None \/ track.year = Some(year))

\* Playlist.get_tracks_by_year, year an int
get_tracks_by_year(self_tracks, year) ==
  SelectSeq(self_tracks, LAMBDA track : track.year = Some(year))

\* get_tracks_in_duration_range with the upper bound left out of the range
get_tracks_in_duration_rangeExclusive(self_tracks, min_sec, max_sec) ==
  SelectSeq(self_tracks,
            LAMBDA track : min_sec <= duration_seconds(track)
                             /\ duration_seconds(track) < max_sec)

\* Playlist.get_tracks_in_duration_range
get_tracks_in_duration_range(self_tracks, min_sec, max_sec) ==
  SelectSeq(self_tracks,
            LAMBDA track : min_sec <= duration_seconds(track)
                             /\ duration_seconds(track) <= max_sec)

\* the keys without .lower()
KeyLessCaseSensitive(by, a, b) ==
  IF by = "duration" THEN duration_seconds(a) < duration_seconds(b)
  ELSE IF by = "title" THEN StrLess(a.title, b.title)
  ELSE StrLess(a.artist, b.artist)

\* key(a) < key(b) for the key function of sort_by_duration / _title / _artist
KeyLess(by, a, b) ==
  IF by = "duration" THEN duration_seconds(a) < duration_seconds(b)
  ELSE IF by = "title" THEN StrLess(lower(a.title), lower(b.title))
  ELSE StrLess(lower(a.artist), lower(b.artist))

Reverse(s) == [i \in 1..Len(s) |-> s[Len(s) + 1 - i]]

\* x put into an ascending list behind every element that is not greater
RECURSIVE InsertSorted(_, _, _)
InsertSorted(sorted, x, by) ==
  IF sorted = <<>> THEN <<x>>
  ELSE IF KeyLess(by, x, Head(sorted)) THEN <<x>> \o sorted
  ELSE <<Head(sorted)>> \o InsertSorted(Tail(sorted), x, by)

\* the ascending stable sort list.sort performs
RECURSIVE StableSort(_, _)
StableSort(s, by) ==
  IF s = <<>> THEN <<>>
  ELSE InsertSorted(StableSort(SubSeq(s, 1, Len(s) - 1), by), s[Len(s)], by)

\* a descending sort done as an ascending sort read backwards
list_sortReversedAscending(self_tracks, by, descending) ==
  IF descending THEN Reverse(StableSort(self_tracks, by))
  ELSE StableSort(self_tracks, by)

\* self.tracks.sort(key=..., reverse=descending): with reverse the list is
\* reversed, sorted ascending and reversed again
list_sort(self_tracks, by, descending) ==
  IF descending THEN Reverse(StableSort(Reverse(self_tracks), by))
  ELSE StableSort(self_tracks, by)

RECURSIVE SumSeconds(_)
SumSeconds(self_tracks) ==
  IF self_tracks = <<>> THEN 0
  ELSE duration_seconds(Head(self_tracks)) + SumSeconds(Tail(self_tracks))

\* Playlist.get_total_duration: timedelta(seconds=total_seconds)
get_total_duration(self_tracks) == timedelta(0, 0, SumSeconds(self_tracks))

\* str(timedelta) of whole seconds: [D day[s], ]H:MM:SS
TimedeltaText(d) ==
  LET total == TruncDiv(d, UnitsPerSecond)
      days == total \div 86400
      hours == (total % 86400) \div 3600
      minutes == (total % 3600) \div 60
      seconds == total % 60
      prefix == IF days = 0 THEN <<>>
                ELSE DecimalText(days) \o <<" ", "d", "a", "y">>
                       \o (IF days = 1 THEN <<>> ELSE <<"s">>) \o <<",", " ">>
  IN prefix \o DecimalText(hours) \o <<":">> \o Format02d(minutes)
       \o <<":">> \o Format02d(seconds)

\* the genre loop without its "if count > 0"
RECURSIVE GenreCountsWithZeros(_, _)
GenreCountsWithZeros(self_tracks, genres) ==
  IF genres = <<>> THEN <<>>
  ELSE LET count == Len(get_tracks_by_genre(self_tracks, Head(genres)))
       IN <<<<value(Head(genres)), count>>>>
            \o GenreCountsWithZeros(self_tracks, Tail(genres))

\* the genre loop of get_statistics over the given members: the dict
\* stats["genres"], as the sequence of its <<key, count>> items
RECURSIVE GenreCounts(_, _)
GenreCounts(self_tracks, genres) ==
  IF genres = <<>> THEN <<>>
  ELSE LET count == Len(get_tracks_by_genre(self_tracks, Head(genres)))
       IN (IF count > 0 THEN <<<<value(Head(genres)), count>>>> ELSE <<>>)
            \o GenreCounts(self_tracks, Tail(genres))

\* d.get(key, 0)
CountOf(items, key) ==
  IF \E i \in 1..Len(items) : items[i][1] = key
  THEN items[CHOOSE i \in 1..Len(items) : items[i][1] = key][2]
  ELSE 0

\* d[key] = count: an old key keeps its place, a new one goes last
SetCount(items, key, count) ==
  IF \E i \in 1..Len(items) : items[i][1] = key
  THEN [i \in 1..Len(items) |->
          IF items[i][1] = key THEN <<key, count>> ELSE items[i]]
  ELSE Append(items, <<key, count>>)

\* the year loop storing 1 instead of the count so far plus 1
RECURSIVE YearCountsNoAdd(_)
YearCountsNoAdd(self_tracks) ==
  IF self_tracks = <<>> THEN <<>>
  ELSE LET before == YearCountsNoAdd(SubSeq(self_tracks, 1, Len(self_tracks) - 1))
           track == self_tracks[Len(self_tracks)]
       IN IF track.year # None /\ track.year[1] # 0
          THEN SetCount(before, track.year[1], 1)
          ELSE before

\* the year loop of get_statistics: the dict stats["years"], as the sequence
\* of its <<key, count>> items; "if track.year" passes neither None nor 0
RECURSIVE YearCounts(_)
YearCounts(self_tracks) ==
  IF self_tracks = <<>> THEN <<>>
  ELSE LET before == YearCounts(SubSeq(self_tracks, 1, Len(self_tracks) - 1))
           track == self_tracks[Len(self_tracks)]
       IN IF track.year # None /\ track.year[1] # 0
          THEN SetCount(before, track.year[1],
                        CountOf(before, track.year[1]) + 1)
          ELSE before

\* Playlist.get_statistics
get_statistics(self_tracks) ==
  [total_tracks |-> Len(self_tracks),
   total_duration |-> TimedeltaText(get_total_duration(self_tracks)),
   artists |-> Cardinality({lower(self_tracks[i].artist) :
                              i \in 1..Len(self_tracks)}),
   genres |-> GenreCounts(self_tracks, MusicGenre),
   years |-> YearCounts(self_tracks)]

\* handle_filter whose lookup hands back the playlist's own list when every
\* track matches, so that sorting the result sorts the playlist
handle_filterOwnList(self_tracks, args) ==
  LET filtered ==
        IF args.artist # None /\ args.artist[1] # <<>>
        THEN get_tracks_by_artist(self_tracks, args.artist[1])
        ELSE IF args.genre # None
        THEN get_tracks_by_genre(self_tracks, args.genre[1])
        ELSE IF args.year # None /\ args.year[1] # 0
        THEN get_tracks_by_year(self_tracks, args.year[1])
        ELSE <<>>
      shown == IF args.sort = None THEN filtered
               ELSE list_sort(filtered, args.sort[1], args.reverse)
  IN IF self_tracks = <<>>
     THEN [tracks |-> self_tracks, shown |-> None, printed |-> "playlist empty"]
     ELSE IF filtered = <<>>
     THEN [tracks |-> self_tracks, shown |-> None, printed |-> "no match"]
     ELSE [tracks |-> IF filtered = self_tracks THEN shown ELSE self_tracks,
           shown |-> shown, printed |-> "shown"]

\* MusicManagerCLI.handle_filter: the playlist's tracks after it, the list it
\* displays (None when it returns early) and what it prints; each lookup
\* builds a new list, and it is that list the command sorts
handle_filter(self_tracks, args) ==
  LET by_duration == (args.min_duration # None /\ args.min_duration[1] # 0)
                       \/ (args.max_duration # None /\ args.max_duration[1] # 0)
      min_sec == IF args.min_duration # None /\ args.min_duration[1] # 0
                 THEN args.min_duration[1] ELSE 0
      max_sec == IF args.max_duration # None /\ args.max_duration[1] # 0
                 THEN args.max_duration[1] ELSE 86400
      by_artist == args.artist # None /\ args.artist[1] # <<>>
      by_genre == ~by_artist /\ args.genre # None
      by_year == ~by_artist /\ ~by_genre /\ args.year # None /\ args.year[1] # 0
      bad_range == ~by_artist /\ ~by_genre /\ ~by_year /\ by_duration
                     /\ min_sec > max_sec
      filtered ==
        IF by_artist THEN get_tracks_by_artist(self_tracks, args.artist[1])
        ELSE IF by_genre THEN get_tracks_by_genre(self_tracks, args.genre[1])
        ELSE IF by_year THEN get_tracks_by_year(self_tracks, args.year[1])
        ELSE IF by_duration
        THEN get_tracks_in_duration_range(self_tracks, min_sec, max_sec)
        ELSE <<>>
      shown == IF args.sort = None THEN filtered
               ELSE list_sort(filtered, args.sort[1], args.reverse)
  IN IF self_tracks = <<>>
     THEN [tracks |-> self_tracks, shown |-> None, printed |-> "playlist empty"]
     ELSE IF bad_range
     THEN [tracks |-> self_tracks, shown |-> None, printed |-> "min above max"]
     ELSE IF filtered = <<>>
     THEN [tracks |-> self_tracks, shown |-> None, printed |-> "no match"]
     ELSE [tracks |-> self_tracks, shown |-> shown, printed |-> "shown"]

\* the data save_to_json dumps
SavedData(self_name, self_tracks) ==
  JObj([playlist_name |-> self_name,
        tracks |-> JList([i \in 1..Len(self_tracks) |-> to_dict(self_tracks[i])])])

\* what "for track_data in v" iterates over: the items of a list, the
\* characters of a string, the keys of a dict (strings, whichever they are)
IterItems(v) ==
  IF v.t = "list" THEN v.items
  ELSE IF v.t = "str" THEN [i \in 1..Len(v.s) |-> JStr(<<v.s[i]>>)]
  ELSE [i \in 1..Cardinality(DOMAIN v.fields) |-> JStr(<<"k">>)]

\* the loop without its inner try: the first malformed record ends it
RECURSIVE LoadRecordsStopAtError(_)
LoadRecordsStopAtError(items) ==
  IF items = <<>> THEN [tracks |-> <<>>, warnings |-> 0]
  ELSE LET track == from_dict(Head(items))
           rest == LoadRecordsStopAtError(Tail(items))
       IN IF IsError(track)
          THEN [tracks |-> <<>>, warnings |-> 1]
          ELSE [tracks |-> <<track>> \o rest.tracks, warnings |-> rest.warnings]

\* the loop of load_from_json over the records: the tracks added and the
\* number of warnings printed
RECURSIVE LoadRecords(_)
LoadRecords(items) ==
  IF items = <<>> THEN [tracks |-> <<>>, warnings |-> 0]
  ELSE LET track == from_dict(Head(items))
           rest == LoadRecords(Tail(items))
       IN IF IsError(track)
          THEN [tracks |-> rest.tracks, warnings |-> rest.warnings + 1]
          ELSE [tracks |-> <<track>> \o rest.tracks, warnings |-> rest.warnings]

\* load_from_json with no except clause for json.JSONDecodeError: text
\* that is not JSON falls to the general clause
load_from_jsonNoDecodeClause(self_name, self_tracks, f) ==
  LET failed(n, ts, msg) ==
        [name |-> n, tracks |-> ts, ret |-> FALSE, warnings |-> 0, printed |-> msg]
  IN IF f.kind = "missing" THEN failed(self_name, self_tracks, "file not found")
     ELSE IF f.kind \in {"garbage", "unreadable"}
     THEN failed(self_name, self_tracks, "load error")
     ELSE IF f.data.t # "obj" THEN failed(self_name, self_tracks, "load error")
     ELSE LET new_name == Get(f.data.fields, "playlist_name", self_name)
              records == Get(f.data.fields, "tracks", JList(<<>>))
          IN IF records.t \notin {"list", "str", "obj"}
             THEN failed(new_name, <<>>, "load error")
             ELSE LET loaded == LoadRecords(IterItems(records))
                  IN [name |-> new_name, tracks |-> loaded.tracks, ret |-> TRUE,
                      warnings |-> loaded.warnings, printed |-> "loaded"]

\* Playlist.load_from_json on a file f: name and tracks afterwards, the value
\* returned, the warnings printed and the closing message printed
load_from_json(self_name, self_tracks, f) ==
  LET failed(n, ts, msg) ==
        [name |-> n, tracks |-> ts, ret |-> FALSE, warnings |-> 0, printed |-> msg]
  IN IF f.kind = "missing" THEN failed(self_name, self_tracks, "file not found")
     ELSE IF f.kind = "garbage"
     THEN failed(self_name, self_tracks, "bad JSON format")
     ELSE IF f.kind = "unreadable" THEN failed(self_name, self_tracks, "load error")
     ELSE IF f.data.t # "obj" THEN failed(self_name, self_tracks, "load error")
     ELSE LET new_name == Get(f.data.fields, "playlist_name", self_name)
              records == Get(f.data.fields, "tracks", JList(<<>>))
          IN IF records.t \notin {"list", "str", "obj"}
             THEN failed(new_name, <<>>, "load error")
             ELSE LET loaded == LoadRecords(IterItems(records))
                  IN [name |-> new_name, tracks |-> loaded.tracks, ret |-> TRUE,
                      warnings |-> loaded.warnings, printed |-> "loaded"]

-----------------------------------------------------------------------------
(* Inputs *)

\* the name the command line gives its playlist
DefaultName == JStr(<<"M">>)

\* the tracks the callers build and add (title, artist, duration, genre, year)
AddedTracks ==
  { Track(JStr(<<"A">>), JStr(<<"Q">>), timedelta(0, 1, 5), "ROCK", JNum(1975)),
    Track(JStr(<<"a">>), JStr(<<"q">>), UnitsPerSecond \div 2, "OTHER", JNull),
    Track(JStr(<<"B">>), JStr(<<" ", "q">>), timedelta(0, 1, 5), "OTHER",
          JNum(2100)) }

\* the lists handed to add_tracks
AddedTrackLists == UNION { [1..k -> AddedTracks] : k \in 0..MaxTracks }

\* indexes passed to remove_track
Indexes == (0 - 1)..MaxTracks

\* artists asked for
ArtistQueries == { <<"q">>, <<" ", "Q", " ">>, <<" ", "q">>, <<"x">> }

\* years asked for
YearQueries == { 1975, 2100, 0 }

\* duration ranges asked for, <<min_sec, max_sec>>; the last has min > max
DurationRanges == { <<0, 65>>, <<65, 65>>, <<1, 64>>, <<66, 0>> }

SortKeys == {"duration", "title", "artist"}

\* genres asked for
GenreQueries == { "ROCK", "OTHER", "JAZZ" }

FilterArgs(artist, genre, year, min_duration, max_duration, sort, reverse) ==
  [artist |-> artist, genre |-> genre, year |-> year,
   min_duration |-> min_duration, max_duration |-> max_duration,
   sort |-> sort, reverse |-> reverse]

\* the arguments of the filter command: one filter or none, with or without
\* a sort of the result
FilterCommands ==
  { FilterArgs(Some(<<"q">>), None, None, None, None, Some("title"), TRUE),
    FilterArgs(None, Some("OTHER"), None, None, None, Some("duration"), FALSE),
    FilterArgs(None, None, Some(1975), None, None, None, FALSE),
    FilterArgs(None, None, Some(0), Some(1), Some(65), Some("artist"), TRUE),
    FilterArgs(None, None, None, None, Some(64), Some("title"), FALSE),
    FilterArgs(None, None, None, Some(66), Some(65), None, FALSE),
    FilterArgs(None, None, None, None, None, Some("title"), FALSE) }

\* records found in files
RecA ==
  JObj([title |-> JStr(<<"A">>), artist |-> JStr(<<"Q">>),
        duration |-> JStr(<<"0", ":", "1", ":", "5">>),
        genre |-> JStr(value("ROCK")), year |-> JNum(1975)])
RecB ==
  JObj([title |-> JStr(<<"B">>), artist |-> JStr(<<" ", "q">>),
        duration |-> JStr(<<"0", "1", ":", "0", "5">>), year |-> JNum(2100)])
RecNoDuration ==
  JObj([title |-> JStr(<<"A">>), artist |-> JStr(<<"Q">>)])
RecBadDuration ==
  JObj([title |-> JStr(<<"A">>), artist |-> JStr(<<"Q">>),
        duration |-> JStr(<<"b", "a", "d">>)])
RecBadYear ==
  JObj([title |-> JStr(<<"A">>), artist |-> JStr(<<"Q">>),
        duration |-> JStr(<<"0", "1", ":", "0", "5">>), year |-> JNum(2101)])

JsonFile(data) == [kind |-> "json", data |-> data]

\* what the file at the path may hold before the program runs
EnvFiles ==
  { [kind |-> "missing"], [kind |-> "unreadable"], [kind |-> "garbage"],
    JsonFile(JList(<<RecA>>)),
    JsonFile(JObj([playlist_name |-> JStr(<<"L">>), tracks |-> JNull])),
    JsonFile(JObj([playlist_name |-> JStr(<<"L">>), tracks |-> JNum(5)])),
    JsonFile(JObj([playlist_name |-> JStr(<<"L">>)])),
    JsonFile(JObj([tracks |-> JList(<<RecA, RecBadDuration, RecB>>)])),
    JsonFile(JObj([playlist_name |-> JStr(<<"L">>),
                   tracks |-> JList(<<RecNoDuration, RecBadYear, RecB, JNum(7)>>)])),
    JsonFile(JObj([tracks |-> JList(<<RecB, RecA, RecB>>)])),
    JsonFile(JObj([tracks |-> JStr(<<"a", "b">>)])) }

-----------------------------------------------------------------------------
(* The playlist and its file *)

Init ==
  /\ name = DefaultName
  /\ tracks = <<>>
  /\ file \in EnvFiles
  /\ op = [kind |-> "Playlist"]
  /\ ret = None
  /\ warnings = 0
  /\ printed = ""

AddTrack ==
  \E track \in AddedTracks :
    /\ Len(tracks) < MaxTracks
    /\ tracks' = add_track(tracks, track)
    /\ op' = [kind |-> "add_track", track |-> track]
    /\ ret' = None
    /\ warnings' = 0
    /\ printed' = ""
    /\ UNCHANGED <<name, file>>

AddTracks ==
  \E new_tracks \in AddedTrackLists :
    /\ Len(tracks) + Len(new_tracks) <= MaxTracks
    /\ tracks' = add_tracks(tracks, new_tracks)
    /\ op' = [kind |-> "add_tracks", tracks |-> new_tracks]
    /\ ret' = None
    /\ warnings' = 0
    /\ printed' = ""
    /\ UNCHANGED <<name, file>>

RemoveTrack ==
  \E index \in Indexes :
    LET r == remove_track(tracks, index)
    IN /\ tracks' = r.tracks
       /\ ret' = r.ret
       /\ op' = [kind |-> "remove_track", index |-> index]
       /\ warnings' = 0
       /\ printed' = ""
       /\ UNCHANGED <<name, file>>

SortBy ==
  \E by \in SortKeys, descending \in BOOLEAN :
    /\ tracks' = list_sort(tracks, by, descending)
    /\ op' = [kind |-> "sort", by |-> by, descending |-> descending]
    /\ ret' = None
    /\ warnings' = 0
    /\ printed' = ""
    /\ UNCHANGED <<name, file>>

GetTracksByArtist ==
  \E artist \in ArtistQueries :
    /\ ret' = get_tracks_by_artist(tracks, artist)
    /\ op' = [kind |-> "get_tracks_by_artist", artist |-> artist]
    /\ warnings' = 0
    /\ printed' = ""
    /\ UNCHANGED <<name, tracks, file>>

GetTracksByYear ==
  \E year \in YearQueries :
    /\ ret' = get_tracks_by_year(tracks, year)
    /\ op' = [kind |-> "get_tracks_by_year", year |-> year]
    /\ warnings' = 0
    /\ printed' = ""
    /\ UNCHANGED <<name, tracks, file>>

GetTracksInDurationRange ==
  \E range \in DurationRanges :
    /\ ret' = get_tracks_in_duration_range(tracks, range[1], range[2])
    /\ op' = [kind |-> "get_tracks_in_duration_range",
              min_sec |-> range[1], max_sec |-> range[2]]
    /\ warnings' = 0
    /\ printed' = ""
    /\ UNCHANGED <<name, tracks, file>>

GetTracksByGenre ==
  \E genre \in GenreQueries :
    /\ ret' = get_tracks_by_genre(tracks, genre)
    /\ op' = [kind |-> "get_tracks_by_genre", genre |-> genre]
    /\ warnings' = 0
    /\ printed' = ""
    /\ UNCHANGED <<name, tracks, file>>

GetTotalDuration ==
  /\ ret' = get_total_duration(tracks)
  /\ op' = [kind |-> "get_total_duration"]
  /\ warnings' = 0
  /\ printed' = ""
  /\ UNCHANGED <<name, tracks, file>>

HandleFilter ==
  \E args \in FilterCommands :
    LET r == handle_filter(tracks, args)
    IN /\ tracks' = r.tracks
       /\ ret' = r.shown
       /\ printed' = r.printed
       /\ op' = [kind |-> "handle_filter", args |-> args]
       /\ warnings' = 0
       /\ UNCHANGED <<name, file>>

GetStatistics ==
  /\ ret' = get_statistics(tracks)
  /\ op' = [kind |-> "get_statistics"]
  /\ warnings' = 0
  /\ printed' = ""
  /\ UNCHANGED <<name, tracks, file>>

\* save_to_json; the write either goes through or raises (OSError)
SaveToJson ==
  \E written \in BOOLEAN :
    /\ file' = IF written THEN JsonFile(SavedData(name, tracks)) ELSE file
    /\ ret' = written
    /\ op' = [kind |-> "save_to_json"]
    /\ warnings' = 0
    /\ printed' = IF written THEN "saved" ELSE "save error"
    /\ UNCHANGED <<name, tracks>>

LoadFromJson ==
  LET r == load_from_json(name, tracks, file)
  IN /\ name' = r.name
     /\ tracks' = r.tracks
     /\ ret' = r.ret
     /\ warnings' = r.warnings
     /\ printed' = r.printed
     /\ op' = [kind |-> "load_from_json"]
     /\ UNCHANGED file

Next ==
  \/ AddTrack
  \/ AddTracks
  \/ RemoveTrack
  \/ SortBy
  \/ GetTracksByArtist
  \/ GetTracksByYear
  \/ GetTracksInDurationRange
  \/ GetTracksByGenre
  \/ GetTotalDuration
  \/ HandleFilter
  \/ GetStatistics
  \/ SaveToJson
  \/ LoadFromJson

Spec == Init /\ [][Next]_vars

-----------------------------------------------------------------------------
(* Track on its own: construction, to_dict, from_dict *)

Titles == { <<>>, <<" ">>, <<"A">>, <<" ", "a", " ">> }

Artists == { <<>>, <<" ", " ">>, <<"Q">>, <<" ", "q">> }

\* timedelta values, in units
Durations ==
  { 0 - UnitsPerSecond, 0, UnitsPerSecond \div 2, UnitsPerSecond,
    timedelta(0, 2, 5), timedelta(1, 1, 1) + UnitsPerSecond \div 2 }

Genres == { "ROCK", "OTHER" }

Years == { None, Some(1899), Some(1900), Some(2100), Some(2101) }

DurationTexts ==
  { <<"0", "2", ":", "0", "5">>, <<"1", ":", "2", ":", "3">>, <<"b", "a", "d">>,
    <<"1", ":", "2", ":", "3", ":", "4">>, <<"1", ":", "x">>, <<"6", "5">>,
    <<"0", ":", "-", "5">>, <<"0", "0", ":", "0", "0">>, <<>>,
    <<"1", ":", ":", "5">>, <<" ", "1", ":", "7", "5">>,
    <<"1", ":", "5", "9", ":", "7", "5">> }

\* a dict holding the keys whose argument is not None
Fields(title, artist, duration, genre, year) ==
  LET arg(k) == CASE k = "title" -> title [] k = "artist" -> artist
                  [] k = "duration" -> duration [] k = "genre" -> genre
                  [] k = "year" -> year
      keys == {k \in {"title", "artist", "duration", "genre", "year"} :
                 arg(k) # None}
  IN [k \in keys |-> arg(k)[1]]

\* records handed to from_dict
RawRecords ==
  { JObj(Fields(title, Some(JStr(<<"Q">>)), duration, genre, year)) :
      title \in { None, Some(JStr(<<"A">>)), Some(JStr(<<" ">>)), Some(JNull) },
      duration \in { None, Some(JNum(65)) }
                   \cup { Some(JStr(text)) : text \in DurationTexts },
      genre \in { None, Some(JStr(value("ROCK"))), Some(JStr(value("OTHER"))),
                  Some(JStr(<<"R", "O", "C", "K">>)), Some(JNull), Some(JNum(5)) },
      year \in { None, Some(JNull), Some(JNum(1975)), Some(JNum(2101)),
                 Some(JStr(<<"1", "9", "7", "5">>)) } }
  \cup { JNull, JNum(7), JList(<<>>), JStr(<<"a">>) }

PyYear(year) == IF year = None THEN JNull ELSE JNum(year[1])

InitTrack ==
  /\ name = DefaultName
  /\ tracks = <<>>
  /\ file = [kind |-> "missing"]
  /\ op = [kind |-> "start"]
  /\ ret = None
  /\ warnings = 0
  /\ printed = ""

Construct ==
  \E title \in Titles, artist \in Artists, duration \in Durations,
     genre \in Genres, year \in Years :
    /\ op' = [kind |-> "Track", title |-> title, artist |-> artist,
              duration |-> duration, genre |-> genre, year |-> year]
    /\ ret' = Track(JStr(title), JStr(artist), duration, genre, PyYear(year))
    /\ UNCHANGED <<name, tracks, file, warnings, printed>>

HoldsTrack == op.kind \in {"Track", "from_dict"} /\ IsTrack(ret)

ToDict ==
  /\ HoldsTrack
  /\ op' = [kind |-> "to_dict", self |-> ret]
  /\ ret' = to_dict(ret)
  /\ UNCHANGED <<name, tracks, file, warnings, printed>>

\* from_dict on a record from outside
FromDictRaw ==
  \E data \in RawRecords :
    /\ op' = [kind |-> "from_dict", data |-> data, of |-> "file"]
    /\ ret' = from_dict(data)
    /\ UNCHANGED <<name, tracks, file, warnings, printed>>

\* from_dict on what to_dict has just returned
FromDictOfToDict ==
  /\ op.kind = "to_dict"
  /\ op' = [kind |-> "from_dict", data |-> ret, of |-> "to_dict"]
  /\ ret' = from_dict(ret)
  /\ UNCHANGED <<name, tracks, file, warnings, printed>>

NextTrack ==
  \/ Construct
  \/ ToDict
  \/ FromDictRaw
  \/ FromDictOfToDict

SpecTrack == InitTrack /\ [][NextTrack]_vars

-----------------------------------------------------------------------------
(* Properties: load_from_json *)

\* C1: whenever load_from_json returns False, name and tracks are what they
\* were before the call.
LoadFailureKeepsState ==
  [][(op'.kind = "load_from_json" /\ ret' = FALSE)
       => (name' = name /\ tracks' = tracks)]_vars

FileHoldsRecordList ==
  /\ file.kind = "json"
  /\ file.data.t = "obj"
  /\ "tracks" \in DOMAIN file.data.fields
  /\ file.data.fields.tracks.t = "list"

\* C2: loading a JSON object whose "tracks" is a list of n records, k of them
\* malformed, returns True and leaves exactly the n - k well-formed records,
\* as Tracks in file order, with k warnings, whatever was held before.
LoadSkipsMalformedRecords ==
  (op.kind = "load_from_json" /\ FileHoldsRecordList) =>
    LET items == file.data.fields.tracks.items
        parsed == [i \in 1..Len(items) |-> from_dict(items[i])]
    IN /\ ret = TRUE
       /\ tracks = SelectSeq(parsed, IsTrack)
       /\ warnings = Cardinality({i \in 1..Len(items) : IsError(parsed[i])})

\* a load that skipped malformed records before and after a well-formed one
LoadSkippedAroundGoodRecord ==
  /\ op.kind = "load_from_json"
  /\ FileHoldsRecordList
  /\ Len(file.data.fields.tracks.items) = 4
  /\ ret = TRUE
  /\ warnings = 3
  /\ Len(tracks) = 1

\* C3: after a successful save_to_json, load_from_json of that file into a
\* fresh empty playlist returns True and gives the same name and the same
\* tracks in the same order, field by field.
SaveThenLoadGivesSamePlaylist ==
  (op.kind = "save_to_json" /\ ret = TRUE) =>
    LET r == load_from_json(JStr(<<"F">>), <<>>, file)
    IN /\ r.ret = TRUE
       /\ r.name = name
       /\ Len(r.tracks) = Len(tracks)
       /\ \A i \in 1..Len(tracks) :
            /\ r.tracks[i].title = tracks[i].title
            /\ r.tracks[i].artist = tracks[i].artist
            /\ duration_seconds(r.tracks[i]) = duration_seconds(tracks[i])
            /\ r.tracks[i].genre = tracks[i].genre
            /\ r.tracks[i].year = tracks[i].year

-----------------------------------------------------------------------------
(* Properties: Track *)

ArgumentsValid(args) ==
  /\ Len(strip(args.title)) > 0
  /\ Len(strip(args.artist)) > 0
  /\ TruncDiv(args.duration, UnitsPerSecond) > 0
  /\ (args.year = None \/ (1900 <= args.year[1] /\ args.year[1] <= 2100))

\* C4: Track(...) succeeds exactly when the trimmed title and artist are not
\* empty, the duration in whole seconds is > 0 and the year is absent or in
\* 1900..2100; otherwise it raises a validation error (ValueError).
ConstructionAcceptsExactlyValid ==
  (op.kind = "Track") =>
    /\ IsTrack(ret) <=> ArgumentsValid(op)
    /\ ~ArgumentsValid(op) => (IsError(ret) /\ ret.exc = "ValueError")

\* C5: for every Track t construction accepts, from_dict(to_dict(t)) succeeds
\* and its to_dict equals to_dict(t).
RecordRoundTrip ==
  (op.kind = "from_dict" /\ op.of = "to_dict") =>
    (IsTrack(ret) /\ to_dict(ret) = op.data)

FormatMessages == {"bad duration format", "invalid literal for int()"}

ValidationMessages ==
  {"title is empty", "artist is empty", "duration must be positive", "bad year"}

IsFormatError(r) ==
  IsError(r) /\ r.exc = "ValueError" /\ r.msg \in FormatMessages

AllDigits(part) ==
  part # <<>> /\ \A i \in 1..Len(part) : part[i] \in Digits

\* a part int() cannot read: empty, or holding something that is no digit,
\* sign or blank
NotNumeric(part) ==
  part = <<>> \/ \E i \in 1..Len(part) : part[i] \notin Digits \cup {"-", "+", " "}

HasDurationText(data) ==
  data.t = "obj" /\ "duration" \in DOMAIN data.fields
    /\ data.fields.duration.t = "str"

YearOutOfRange(year) == year # None /\ (year[1] < 1900 \/ year[1] > 2100)

\* the invariants a call of Track(...) breaks, in the order title, artist,
\* duration, year
BrokenInvariants(args) ==
  SelectSeq(<<"title is empty", "artist is empty", "duration must be positive",
              "bad year">>,
            LAMBDA m :
              \/ m = "title is empty" /\ strip(args.title) = <<>>
              \/ m = "artist is empty" /\ strip(args.artist) = <<>>
              \/ m = "duration must be positive" /\ args.duration <= 0
              \/ m = "bad year" /\ YearOutOfRange(args.year))

\* C12: a failed construction reports the invariant that failed, by one of
\* four different messages, and of several failing invariants the first in
\* the order title, artist, duration, year.
ConstructionReportsFirstFailure ==
  (op.kind = "Track") =>
    /\ Cardinality(ValidationMessages) = 4
    /\ IsError(ret) <=> BrokenInvariants(op) # <<>>
    /\ IsError(ret) =>
         (ret.exc = "ValueError" /\ ret.msg = Head(BrokenInvariants(op)))

\* a construction that broke the duration and the year reported the duration
DurationReportedBeforeYear ==
  /\ op.kind = "Track"
  /\ BrokenInvariants(op) = <<"duration must be positive", "bad year">>
  /\ ret.msg = "duration must be positive"

-----------------------------------------------------------------------------
(* Properties: remove_track, sorting, get_tracks_by_artist *)

\* C6: remove_track(index) on n tracks: for 0 <= index < n it returns True
\* and deletes exactly the element at that position; for any other index it
\* returns False and changes nothing.
RemoveTrackAtIndex ==
  [][(op'.kind = "remove_track") =>
       LET index == op'.index
           n == Len(tracks)
       IN /\ name' = name
          /\ IF 0 <= index /\ index < n
             THEN /\ ret' = TRUE
                  /\ Len(tracks') = n - 1
                  /\ \A j \in 1..(n - 1) :
                       tracks'[j] = IF j <= index THEN tracks[j] ELSE tracks[j + 1]
             ELSE /\ ret' = FALSE
                  /\ tracks' = tracks]_vars

\* the middle one of three tracks was removed
RemovedMiddleTrack ==
  /\ op.kind = "remove_track"
  /\ op.index = 1
  /\ ret = TRUE
  /\ Len(tracks) = 2
  /\ tracks[1].title = <<"B">>

\* the key the three sorts compare, as text or as a one-number tuple
KeyOf(by, track) ==
  IF by = "duration" THEN <<duration_seconds(track)>>
  ELSE IF by = "title" THEN lower(track.title)
  ELSE lower(track.artist)

\* C7: the sorts are stable, ascending and descending: the tracks of one key
\* keep their relative order.
SortIsStable ==
  [][(op'.kind = "sort") =>
       \A i \in 1..Len(tracks) :
         LET SameKey(track) == KeyOf(op'.by, track) = KeyOf(op'.by, tracks[i])
         IN SelectSeq(tracks', SameKey) = SelectSeq(tracks, SameKey)]_vars

\* a descending sort has left two different tracks of one key side by side
DescendingSortWithTie ==
  /\ op.kind = "sort"
  /\ op.descending
  /\ \E i \in 1..(Len(tracks) - 1) :
       /\ tracks[i] # tracks[i + 1]
       /\ KeyOf(op.by, tracks[i]) = KeyOf(op.by, tracks[i + 1])

Count(s, x) == Cardinality({i \in 1..Len(s) : s[i] = x})

KeyBefore(by, a, b) ==
  IF by = "duration" THEN KeyOf(by, a)[1] < KeyOf(by, b)[1]
  ELSE StrLess(KeyOf(by, a), KeyOf(by, b))

\* C8: a sort leaves a permutation of the tracks and the name unchanged, with
\* neighbours in non-decreasing key order, non-increasing when descending.
SortPermutesIntoKeyOrder ==
  [][(op'.kind = "sort") =>
       /\ name' = name
       /\ Len(tracks') = Len(tracks)
       /\ \A i \in 1..Len(tracks) :
            Count(tracks', tracks[i]) = Count(tracks, tracks[i])
       /\ \A i \in 1..(Len(tracks') - 1) :
            IF op'.descending
            THEN ~KeyBefore(op'.by, tracks'[i], tracks'[i + 1])
            ELSE ~KeyBefore(op'.by, tracks'[i + 1], tracks'[i])]_vars

\* a sort by title has put "a" before "B"
SortedLowerBeforeUpper ==
  /\ op.kind = "sort"
  /\ op.by = "title"
  /\ ~op.descending
  /\ \E i \in 1..(Len(tracks) - 1) :
       tracks[i].title = <<"a">> /\ tracks[i + 1].title = <<"B">>

\* C9: get_tracks_by_artist(q) returns, in order, exactly the tracks whose
\* artist equals q once both are trimmed and lower-cased.
FindByArtistTrimsBothSides ==
  (op.kind = "get_tracks_by_artist") =>
    ret = SelectSeq(tracks,
            LAMBDA track : lower(strip(track.artist)) = lower(strip(op.artist)))

-----------------------------------------------------------------------------
(* Properties: get_tracks_by_year, get_tracks_in_duration_range *)

FindByDurationRangeInclusive ==
  (op.kind = "get_tracks_in_duration_range") =>
    LET InRange(track) ==
          ~(duration_seconds(track) < op.min_sec)
            /\ ~(op.max_sec < duration_seconds(track))
    IN /\ ret = SelectSeq(tracks, InRange)
       /\ op.min_sec > op.max_sec => ret = <<>>

\* a range whose two bounds are a track's duration has returned that track
FoundTrackOnBothBounds ==
  /\ op.kind = "get_tracks_in_duration_range"
  /\ op.min_sec = op.max_sec
  /\ ret # <<>>
  /\ Len(ret) < Len(tracks)

-----------------------------------------------------------------------------
(* Properties: get_statistics *)

RECURSIVE SumCounts(_)
SumCounts(items) ==
  IF items = <<>> THEN 0 ELSE Head(items)[2] + SumCounts(Tail(items))

KeysDiffer(items) ==
  \A i, j \in 1..Len(items) : items[i][1] = items[j][1] => i = j

HeldGenres == {tracks[i].genre : i \in 1..Len(tracks)}

\* C15: the genres of get_statistics hold one entry per genre that some track
\* has, under its label, with the number of tracks of that genre (>= 1); the
\* counts add up to total_tracks, the length of the track list.
StatisticsGenresCountEveryTrack ==
  (op.kind = "get_statistics") =>
    /\ KeysDiffer(ret.genres)
    /\ {ret.genres[i][1] : i \in 1..Len(ret.genres)}
         = {value(g) : g \in HeldGenres}
    /\ \A i \in 1..Len(ret.genres) :
         /\ ret.genres[i][2] >= 1
         /\ \E g \in HeldGenres :
              /\ value(g) = ret.genres[i][1]
              /\ ret.genres[i][2]
                   = Cardinality({k \in 1..Len(tracks) : tracks[k].genre = g})
    /\ SumCounts(ret.genres) = ret.total_tracks
    /\ ret.total_tracks = Len(tracks)

\* statistics of a playlist of three tracks of two genres
StatisticsOfTwoGenres ==
  /\ op.kind = "get_statistics"
  /\ Len(ret.genres) = 2
  /\ ret.total_tracks = 3

HeldYears == {tracks[i].year[1] : i \in {k \in 1..Len(tracks) : tracks[k].year # None}}

\* C16: the years of get_statistics map each year some track carries, and
\* nothing else, to the number of tracks of that year; the counts add up to
\* the number of tracks that have a year.
StatisticsYearsCountTracksWithYear ==
  (op.kind = "get_statistics") =>
    /\ KeysDiffer(ret.years)
    /\ {ret.years[i][1] : i \in 1..Len(ret.years)} = HeldYears
    /\ \A i \in 1..Len(ret.years) :
         ret.years[i][2]
           = Cardinality({k \in 1..Len(tracks) :
                            tracks[k].year = Some(ret.years[i][1])})
    /\ SumCounts(ret.years)
         = Cardinality({k \in 1..Len(tracks) : tracks[k].year # None})

\* statistics of a playlist with two tracks of one year around a track of
\* another year
StatisticsOfRepeatedYear ==
  /\ op.kind = "get_statistics"
  /\ Len(ret.years) = 2
  /\ ret.years[1][2] = 2

-----------------------------------------------------------------------------
(* Properties: genre of a record *)

WithoutGenre(data) ==
  JObj([k \in DOMAIN data.fields \ {"genre"} |-> data.fields[k]])

LabelledGenres(genre_value) ==
  {i \in 1..Len(MusicGenre) :
     genre_value.t = "str" /\ genre_value.s = value(MusicGenre[i])}

\* C17: from_dict of a record with no "genre" gives genre OTHER; with a
\* "genre" that is the label of a member it gives that member; with any other
\* "genre" (a member's identifier, null, a number) it gives OTHER; and the
\* outcome, Track or exception, is the one the record without its "genre"
\* has: the genre value never makes from_dict fail.
GenreResolvedWithoutError ==
  (op.kind = "from_dict" /\ op.data.t = "obj") =>
    /\ \A i, j \in 1..Len(MusicGenre) :
         value(MusicGenre[i]) = value(MusicGenre[j]) => i = j
    /\ IsTrack(ret) <=> IsTrack(from_dict(WithoutGenre(op.data)))
    /\ IsError(ret) => ret = from_dict(WithoutGenre(op.data))
    /\ IsTrack(ret) =>
         IF "genre" \notin DOMAIN op.data.fields THEN ret.genre = "OTHER"
         ELSE IF LabelledGenres(op.data.fields.genre) # {}
         THEN \E i \in LabelledGenres(op.data.fields.genre) :
                ret.genre = MusicGenre[i]
         ELSE ret.genre = "OTHER"

\* a record whose "genre" is the identifier ROCK became a Track of genre OTHER
IdentifierGenreBecameOther ==
  /\ op.kind = "from_dict"
  /\ op.data.t = "obj"
  /\ "genre" \in DOMAIN op.data.fields
  /\ op.data.fields.genre = JStr(<<"R", "O", "C", "K">>)
  /\ IsTrack(ret)
  /\ ret.genre = "OTHER"

-----------------------------------------------------------------------------
(* Properties: the formatted duration *)

\* text is "MM:SS" for the given minutes and seconds: two runs of digits
\* around one colon, the seconds on exactly two digits, the minutes on at
\* least two and without padding beyond two
IsMinutesSeconds(text, minutes, seconds) ==
  LET parts == split(text, ":")
  IN /\ Len(parts) = 2
     /\ AllDigits(parts[1])
     /\ AllDigits(parts[2])
     /\ DecimalValue(parts[1]) = minutes
     /\ DecimalValue(parts[2]) = seconds
     /\ Len(parts[2]) = 2
     /\ Len(parts[1]) >= 2
     /\ Len(parts[1]) > 2 => parts[1][1] # "0"

\* C18: the duration text of a Track of s whole seconds is "MM:SS" with
\* MM = s div 60 and SS = s mod 60 in 00..59, minutes never rolled over into
\* hours; so the Track loaded from a three-part "H:M:S" text is written back
\* with minutes 60*H + M plus the carry of S.
FormattedDurationIsMinutesSeconds ==
  /\ (op.kind = "to_dict") =>
       LET s == duration_seconds(op.self)
       IN /\ s % 60 \in 0..59
          /\ IsMinutesSeconds(ret.fields.duration.s, s \div 60, s % 60)
  /\ (op.kind = "from_dict" /\ IsTrack(ret) /\ HasDurationText(op.data)) =>
       LET parts == split(op.data.fields.duration.s, ":")
       IN Len(parts) = 3 =>
            LET H == IntValue(parts[1])
                M == IntValue(parts[2])
                S == IntValue(parts[3])
            IN IsMinutesSeconds(to_dict(ret).fields.duration.s,
                                60 * H + M + (S \div 60), S % 60)

\* a Track of 3661 seconds was written as "61:01"
WroteSixtyOneMinutes ==
  /\ op.kind = "to_dict"
  /\ duration_seconds(op.self) = 3661
  /\ ret.fields.duration.s = <<"6", "1", ":", "0", "1">>

-----------------------------------------------------------------------------
(* Properties: adding tracks *)

\* add_track called once per element, first to last
RECURSIVE AddedOneByOne(_, _)
AddedOneByOne(s, new_tracks) ==
  IF new_tracks = <<>> THEN s
  ELSE AddedOneByOne(add_track(s, new_tracks[1]),
                     SubSeq(new_tracks, 2, Len(new_tracks)))

\* C19: add_track(t) leaves every track in place and puts t after them, one
\* track more even when the list already holds an equal one; add_tracks of
\* t1..tk leaves every track in place and puts t1..tk after them in that
\* order, k tracks more, which is what k calls of add_track give.
AddAppendsInOrder ==
  [][/\ (op'.kind = "add_track") =>
          /\ Len(tracks') = Len(tracks) + 1
          /\ \A j \in 1..Len(tracks) : tracks'[j] = tracks[j]
          /\ tracks'[Len(tracks) + 1] = op'.track
          /\ name' = name
     /\ (op'.kind = "add_tracks") =>
          /\ Len(tracks') = Len(tracks) + Len(op'.tracks)
          /\ \A j \in 1..Len(tracks) : tracks'[j] = tracks[j]
          /\ \A i \in 1..Len(op'.tracks) :
               tracks'[Len(tracks) + i] = op'.tracks[i]
          /\ tracks' = AddedOneByOne(tracks, op'.tracks)
          /\ name' = name]_vars

\* add_tracks was handed the same track twice, and the playlist holds both
AddedTheSameTrackTwice ==
  /\ op.kind = "add_tracks"
  /\ Len(op.tracks) = 2
  /\ op.tracks[1] = op.tracks[2]
  /\ tracks = op.tracks

-----------------------------------------------------------------------------
(* Properties: the tracks a playlist holds *)

\* C20: in every reachable state every track the playlist holds has a
\* non-empty trimmed title, a non-empty trimmed artist, a duration of at least
\* one whole second and a year that is absent or within 1900..2100.
HeldTracksSatisfyInvariants ==
  \A i \in 1..Len(tracks) :
    /\ strip(tracks[i].title) # <<>>
    /\ strip(tracks[i].artist) # <<>>
    /\ duration_seconds(tracks[i]) >= 1
    /\ tracks[i].year = None \/ tracks[i].year[1] \in 1900..2100

-----------------------------------------------------------------------------
(* Properties: looking a track up by its own artist *)

\* C21: get_tracks_by_artist asked for the artist text of a track the
\* playlist holds returns that track, whatever artist text construction
\* accepted, surrounding whitespace included.
FindByOwnArtistFindsTrack ==
  (op.kind = "get_tracks_by_artist") =>
    \A i \in 1..Len(tracks) :
      tracks[i].artist = op.artist =>
        \E j \in 1..Len(ret) : ret[j] = tracks[i]

-----------------------------------------------------------------------------
(* Properties: operations that only read *)

ReadingOperations ==
  { "get_tracks_by_artist", "get_tracks_by_genre", "get_tracks_by_year",
    "get_tracks_in_duration_range", "get_total_duration", "get_statistics",
    "save_to_json", "handle_filter" }

\* C22: the lookups by artist, genre, year and duration range, the total
\* duration, the statistics and save_to_json (written or not) leave the name
\* and the track list, contents and order, as they were; so does the filter
\* command, which sorts the list a lookup returned and not the playlist's.
ReadingLeavesPlaylistUnchanged ==
  [][(op'.kind \in ReadingOperations) =>
       /\ name' = name
       /\ Len(tracks') = Len(tracks)
       /\ \A i \in 1..Len(tracks) : tracks'[i] = tracks[i]]_vars

\* the filter command displayed every track of the playlist in an order that
\* is not the playlist's
FilterShowedAnotherOrder ==
  /\ op.kind = "handle_filter"
  /\ ret # None
  /\ Len(ret) = Len(tracks)
  /\ ret # tracks

====
